---- MODULE Spec2Model ----
(***************************************************************************)
(* Model of the discovery / enrichment reconciliation code of the lead     *)
(* finder: the `businesses` store of the three App variants                *)
(*   "places"  : batch discovery through the Places API, enrichment by     *)
(*               place details + generative research, Research All         *)
(*   "stream"  : streamed discovery, enrichment by generative research     *)
(*   "geocode" : streamed discovery, generative research + geocoding       *)
(* and the handlers that mutate it.  A string of the program is a string   *)
(* here; a value that may also be undefined or a number is written with    *)
(* its type: Undefined, Str(s), Num(n), n being the literal of the number. *)
(* A character that has no escape in a TLA+ string is written by its code  *)
(* point: "U+00A0" is the no-break space, "U+D800" a lone high surrogate.  *)
(***************************************************************************)
EXTENDS Integers, Sequences, FiniteSets, TLC

\* ---------------------------------------------------------------- bounds
MaxStore == 2
MaxBatch == 2
MaxAttempts == 3
MaxClock == 1
TicksPerDay == 1
MaxLines == 3
MaxCuts == 2

\* ------------------------------------------------------- JavaScript values
\* undefined, a string, a number
Undefined == [type |-> "undefined"]
Str(s) == [type |-> "string", value |-> s]
Num(n) == [type |-> "number", value |-> n]
NotFound == "Not Found"
ResearchFailedMsg == "Research failed."
ResearchFailedAgainMsg == "Research failed again."
DiscoveryErrorMsg == "An error occurred during discovery. Please check the console and try again."
NoMapsKeyMsg == "Google Maps API key is not configured. The map will not be displayed."
NoError == "null"
DISCOVERED == "Discovered"

Variants == {"places", "stream", "geocode"}

\* ToBoolean(v) is false: undefined, the empty string, the numbers 0 and NaN
\* (the string "0" and every other non-empty string are truthy)
Falsy(v) == v \in {Undefined, Str(""), Num("0"), Num("NaN")}

\* a || b of JavaScript: b when a is falsy, a otherwise
JsOr(a, b) == IF Falsy(a) THEN b ELSE a

\* new Date().toISOString().split('T')[0]: the clock truncated to the day
DateOf(t) == t \div TicksPerDay

\* ------------------------------------------------ what the sources answer
\* searchPlacesInArea: id, displayName, location, formattedAddress
Places ==
  { [id |-> "p1", displayName |-> "Acme Cafe", formattedAddress |-> "1 Main St",
     latitude |-> Num("30.1"), longitude |-> Num("-97.1")],
    [id |-> "p2", displayName |-> "Beta Bar", formattedAddress |-> "",
     latitude |-> Num("30.2"), longitude |-> Num("-97.2")] }

\* findBusinessesStream hands onDiscovery a non-empty name and an http website
StreamNames == {"Acme Cafe", "Beta Bar"}
StreamWebsites == {"https://acme.test", "https://beta.test"}

\* researchBusiness: the six fields of researchSchema
ResearchResults ==
  { [companyName |-> "Acme Cafe LLC", contactName |-> "Ann", address |-> "2 Oak Ave",
     phone |-> "555-1234", email |-> "ann@acme.test", description |-> "Coffee roaster."],
    [companyName |-> "Acme", contactName |-> NotFound, address |-> NotFound,
     phone |-> NotFound, email |-> NotFound, description |-> "A cafe."],
    [companyName |-> "Acme Cafe LLC", contactName |-> "Ann", address |-> "U+D800 Main St",
     phone |-> "555-1234", email |-> "ann@acme.test", description |-> "He said \"hi\""] }

\* the code unit written at position i of the text is a high surrogate
\* (U+D800..U+DBFF), a low surrogate (U+DC00..U+DFFF)
HexDigits == {"0", "1", "2", "3", "4", "5", "6", "7", "8", "9", "A", "B", "C", "D", "E", "F"}

SurrogateAt(text, i, fourth) ==
  /\ i >= 1
  /\ i + 5 <= Len(text)
  /\ SubSeq(text, i, i + 2) = "U+D"
  /\ SubSeq(text, i + 3, i + 3) \in fourth
  /\ SubSeq(text, i + 4, i + 4) \in HexDigits
  /\ SubSeq(text, i + 5, i + 5) \in HexDigits

HighSurrogateAt(text, i) == SurrogateAt(text, i, {"8", "9", "A", "B"})
LowSurrogateAt(text, i) == SurrogateAt(text, i, {"C", "D", "E", "F"})

\* from position i on, the text holds a surrogate that is not half of a pair
RECURSIVE LoneSurrogateFrom(_, _)
LoneSurrogateFrom(text, i) ==
  IF i > Len(text) THEN FALSE
  ELSE IF SubSeq(text, i, i) # "U" THEN LoneSurrogateFrom(text, i + 1)
  ELSE IF HighSurrogateAt(text, i)
       THEN IF LowSurrogateAt(text, i + 6) THEN LoneSurrogateFrom(text, i + 12) ELSE TRUE
  ELSE IF LowSurrogateAt(text, i) THEN TRUE
  ELSE LoneSurrogateFrom(text, i + 1)

\* the text is not well-formed UTF-16: encodeURIComponent and encodeURI throw
\* URIError on it
HasLoneSurrogate(text) == LoneSurrogateFrom(text, 1)

\* getPlaceDetails: the fields the merge reads
PlaceDetailsResults ==
  { [websiteUri |-> Str("https://acme.example"), nationalPhoneNumber |-> Str("555-0000"),
     formattedAddress |-> Str("9 Place Rd"), rating |-> Num("4.5"),
     userRatingCount |-> Num("10")],
    [websiteUri |-> Str(""), nationalPhoneNumber |-> Str(""), formattedAddress |-> Str(""),
     rating |-> Num("0"), userRatingCount |-> Num("0")] }

\* the local placeDetails before getPlaceDetails has resolved
NoDetails ==
  [websiteUri |-> Undefined, nationalPhoneNumber |-> Undefined,
   formattedAddress |-> Undefined, rating |-> Undefined, userRatingCount |-> Undefined]

\* the local researchedData before researchBusiness has resolved: no step reads it
\* (its six fields are strings once it is set, and are written empty until then)
NoResearch ==
  [companyName |-> "", contactName |-> "", address |-> "",
   phone |-> "", email |-> "", description |-> ""]

\* geocodeAddress: a location, or null
NoCoords == [lat |-> Undefined, lng |-> Undefined]
GeocodeResults == { [lat |-> Num("30.3"), lng |-> Num("-97.3")] }

Location == "Austin, TX"
BusinessType == "Coffee Shops"

\* ---------------------------------------------------- findBusinessesStream
\* A string is the sequence of its characters.
\* WhiteSpace and LineTerminator of ECMAScript: what trim() strips
WhiteSpace ==
  {"\t", "U+000B", "\f", " ", "U+00A0", "U+FEFF", "U+1680", "U+2000", "U+2001", "U+2002",
   "U+2003", "U+2004", "U+2005", "U+2006", "U+2007", "U+2008", "U+2009", "U+200A",
   "U+202F", "U+205F", "U+3000"}
LineTerminator == {"\n", "\r", "U+2028", "U+2029"}
Whitespace == WhiteSpace \cup LineTerminator
Newline == "\n"
Bar == "|"
Http == <<"h", "t", "t", "p">>

\* s.indexOf(c), counted from 1; 0 when c does not occur (-1 of JavaScript)
IndexOf(s, c) ==
  IF \E i \in 1..Len(s) : s[i] = c
  THEN CHOOSE i \in 1..Len(s) : s[i] = c /\ \A j \in 1..(i - 1) : s[j] # c
  ELSE 0

\* s.includes(c)
Includes(s, c) == IndexOf(s, c) # 0

\* s.trim()
Trim(s) ==
  LET keep == {i \in 1..Len(s) : s[i] \notin Whitespace}
  IN IF keep = {} THEN <<>>
     ELSE SubSeq(s, CHOOSE i \in keep : \A j \in keep : i <= j,
                    CHOOSE i \in keep : \A j \in keep : j <= i)

\* s.split(c)
RECURSIVE Split(_, _)
Split(s, c) ==
  LET k == IndexOf(s, c)
  IN IF k = 0 THEN <<s>>
     ELSE <<SubSeq(s, 1, k - 1)>> \o Split(SubSeq(s, k + 1, Len(s)), c)

\* s.startsWith(prefix)
StartsWith(s, prefix) ==
  Len(s) >= Len(prefix) /\ SubSeq(s, 1, Len(prefix)) = prefix

\* the body run on one trimmed line: the onDiscovery calls it makes (none or one)
ParseLine(line) ==
  IF Includes(line, Bar)
  THEN LET parts == Split(line, Bar)
           name == Trim(parts[1])
           website == Trim(parts[2])
       IN IF Len(parts) >= 2 /\ name # <<>> /\ website # <<>> /\ StartsWith(website, Http)
          THEN <<[name |-> name, website |-> website]>>
          ELSE <<>>
  ELSE <<>>

\* the while loop over the newlines of the buffer: what is left of the buffer and
\* the calls made
RECURSIVE Drain(_)
Drain(buffer) ==
  LET newlineIndex == IndexOf(buffer, Newline)
  IN IF newlineIndex = 0 THEN [buffer |-> buffer, calls |-> <<>>]
     ELSE LET line == Trim(SubSeq(buffer, 1, newlineIndex - 1))
              after == Drain(SubSeq(buffer, newlineIndex + 1, Len(buffer)))
          IN [buffer |-> after.buffer, calls |-> ParseLine(line) \o after.calls]

\* the stream ending without a look at what is left in the buffer
FlushNothing(buffer) == <<>>

\* the remaining text of the buffer processed after the stream has ended
Flush(buffer) ==
  IF Includes(Trim(buffer), Bar) THEN ParseLine(Trim(buffer)) ELSE <<>>

\* no stream is being read
NoStream == [chunks |-> <<>>, read |-> 0, buffer |-> <<>>, calls |-> <<>>, done |-> FALSE]

\* lines a model may answer: well formed, padded and CRLF-ended, a URL that is
\* not http, no delimiter, no name, empty, a third part, an empty second part,
\* padded with a form feed and a no-break space
StreamLines ==
  { <<"A", "|", "h", "t", "t", "p">>,
    <<"B", " ", "|", " ", "h", "t", "t", "p", "s", "\r">>,
    <<"A", "|", "h", "t">>,
    <<"A", " ", "h", "t", "t", "p">>,
    <<"|", "h", "t", "t", "p">>,
    <<>>,
    <<"A", "|", "h", "t", "t", "p", "|", "x">>,
    <<"A", "|", "|", "h", "t", "t", "p">>,
    <<"A", "|", "\f", "h", "t", "t", "p", "U+00A0">> }

\* lines.join('\n')
RECURSIVE Join(_)
Join(lines) ==
  IF lines = <<>> THEN <<>>
  ELSE IF Len(lines) = 1 THEN lines[1]
  ELSE lines[1] \o <<Newline>> \o Join(Tail(lines))

\* chunks.join('')
RECURSIVE Concat(_)
Concat(chunks) == IF chunks = <<>> THEN <<>> ELSE Head(chunks) \o Concat(Tail(chunks))

\* the text cut after the positions cuts (non-decreasing, 0..Len(text))
ChunksOf(text, cuts) ==
  [k \in 1..(Len(cuts) + 1) |->
     SubSeq(text, IF k = 1 THEN 1 ELSE cuts[k - 1] + 1,
                  IF k = Len(cuts) + 1 THEN Len(text) ELSE cuts[k])]

VARIABLES
  variant,        \* which App is running
  hasMapsKey,     \* process.env.GOOGLE_MAPS_API_KEY is set
  now,            \* the clock read by Date.now() and new Date()
  businesses,     \* useState<Business[]>
  isLoading,      \* useState(false)
  researchMessage,
  error,          \* useState<string | null>
  discoveredWebsitesThisRun,
  attempts,       \* enrichment calls in flight, one record per call chain
  nextGen,        \* number given to the next attempt issued
  history,        \* per store position: outcome and number of the last merged attempt
  lastDelivered,  \* dedupe keys of the discovery results the step just taken handed to the store
  reader,         \* findBusinessesStream at work: chunks, chunks read, buffer, onDiscovery calls
  runs,           \* handleSearch calls that have not reached their finally block
  exported        \* rows the step just taken handed to the download (none: <<>>)

vars == <<variant, hasMapsKey, now, businesses, isLoading, researchMessage, error,
          discoveredWebsitesThisRun, attempts, nextGen, history, lastDelivered,
          reader, runs, exported>>

\* no download in the step
NoExport == <<>>

\* ------------------------------------------------------------- the store
Idx == 1..Len(businesses)

Message(text, count) == [text |-> text, count |-> count]

\* attempts issued so far and still to be issued by the Research All loops under way
Committed == LET RECURSIVE Sum(_)
                 Sum(S) == IF S = {} THEN 0
                           ELSE LET a == CHOOSE x \in S : TRUE
                                IN Len(a.rest) + Sum(S \ {a})
             IN (nextGen - 1) + Sum(attempts)

Init ==
  /\ variant \in Variants
  /\ hasMapsKey \in (IF variant = "stream" THEN {FALSE} ELSE BOOLEAN)
  /\ now = 0
  /\ businesses = <<>>
  /\ isLoading = FALSE
  /\ researchMessage = Message("", 0)
  /\ error = IF variant \in {"places", "geocode"} /\ ~hasMapsKey THEN NoMapsKeyMsg ELSE NoError
  /\ discoveredWebsitesThisRun = {}
  /\ attempts = {}
  /\ nextGen = 1
  /\ history = <<>>
  /\ lastDelivered = {}
  /\ reader = NoStream
  /\ runs = 0
  /\ exported = NoExport

NoHistory == [outcome |-> "none", mergedGen |-> 0]

\* positions of the records with this id (prev.map(b => b.id === id ? ... : b))
Matching(id) == {i \in Idx : businesses[i].id = id}

\* businesses.find(b => b.id === id): the first record with this id
Find(id) == businesses[CHOOSE i \in Matching(id) : \A j \in Matching(id) : i <= j]

\* the sequences over S of length at most n
SeqsUpTo(S, n) == UNION {[1..k -> S] : k \in 0..n}

\* ------------------------------------------------------- enrichment calls
\* One record per call chain in flight.  pc is the external call it waits for;
\* rest is the tail of the Research All loop that awaits it (empty otherwise);
\* wasResearching / wasOutcome remember the target as it was when the call was issued.
Attempt(store, hist, gen, id, kind, pc, rest) ==
  LET matching == {i \in 1..Len(store) : store[i].id = id}
      first == CHOOSE i \in matching : \A j \in matching : i <= j
  IN [gen |-> gen, id |-> id, kind |-> kind, pc |-> pc, rest |-> rest,
      placeDetails |-> NoDetails, researchedData |-> NoResearch,
      wasResearching |-> IF matching = {} THEN FALSE ELSE store[first].isResearching,
      wasOutcome |-> IF matching = {} THEN "none" ELSE hist[first].outcome]

\* the first external call of processResearchAndGeocoding / the stream handlers
FirstCall == IF variant = "places" THEN "details" ELSE "research"

\* -------------------------------------------------------------- discovery
\* handleSearch reachable while a run is under way (the form not disabled)
HandleSearchWhileLoading ==
  /\ isLoading' = TRUE
  /\ error' = NoError
  /\ researchMessage' = Message("Discovering businesses...", 0)
  /\ discoveredWebsitesThisRun' = {}
  /\ UNCHANGED <<variant, hasMapsKey, now, businesses, attempts, nextGen, history>>
  /\ UNCHANGED reader
  /\ runs' = runs + 1
  /\ exported' = NoExport
  /\ lastDelivered' = {}

\* handleSearch up to its await: the form submits only while isLoading is false
HandleSearch ==
  /\ ~isLoading
  /\ isLoading' = TRUE
  /\ error' = NoError
  /\ researchMessage' = Message("Discovering businesses...", 0)
  /\ discoveredWebsitesThisRun' = {}
  /\ UNCHANGED <<variant, hasMapsKey, now, businesses, attempts, nextGen, history>>
  /\ UNCHANGED reader
  /\ runs' = runs + 1
  /\ exported' = NoExport
  /\ lastDelivered' = {}

\* places.map(place => ({...})) of the places variant
NewPlaceBusiness(place) ==
  [id |-> place.id,
   discoveryName |-> place.displayName,
   discoveryWebsite |-> JsOr(Undefined, Str("")).value,
   companyName |-> place.displayName,
   contactName |-> "",
   address |-> JsOr(Str(place.formattedAddress), Str("")).value,
   phone |-> JsOr(Undefined, Str("")).value,
   email |-> "",
   description |-> "",
   status |-> DISCOVERED,
   dateFound |-> DateOf(now),
   emailThreadId |-> "N/A",
   isResearching |-> FALSE,
   areaSearched |-> Location,
   businessType |-> BusinessType,
   lat |-> place.latitude,
   lng |-> place.longitude,
   websiteUri |-> Undefined,
   rating |-> Undefined,
   userRatingCount |-> Undefined]

\* the updater of setBusinesses in the places handleSearch
UniqueNewBusinesses(prev, newBusinesses) ==
  LET existingIds == {prev[i].id : i \in 1..Len(prev)}
  IN SelectSeq(newBusinesses, LAMBDA b : b.id \notin existingIds)

\* searchPlacesInArea resolved: the rest of the try block and finally
SearchPlacesReturn(places) ==
  LET newBusinesses == [k \in 1..Len(places) |-> NewPlaceBusiness(places[k])]
      unique == UniqueNewBusinesses(businesses, newBusinesses)
  IN /\ variant = "places"
     /\ hasMapsKey
     /\ isLoading
     /\ Len(businesses) + Len(unique) <= MaxStore
     /\ businesses' = businesses \o unique
     /\ history' = history \o [k \in 1..Len(unique) |-> NoHistory]
     /\ UNCHANGED reader
     /\ runs' = runs - 1
     /\ exported' = NoExport
     /\ lastDelivered' = {places[k].id : k \in 1..Len(places)}
     /\ researchMessage' = Message("Found businesses.", Len(places))
     /\ isLoading' = FALSE
     /\ UNCHANGED <<variant, hasMapsKey, now, error, discoveredWebsitesThisRun,
                    attempts, nextGen>>

\* the catch block of handleSearch also dropping what the run has surfaced
DiscoveryFailRollsBack ==
  /\ isLoading
  /\ error' = DiscoveryErrorMsg
  /\ researchMessage' = Message("", 0)
  /\ isLoading' = FALSE
  /\ businesses' = <<>>
  /\ history' = <<>>
  /\ UNCHANGED <<variant, hasMapsKey, now, discoveredWebsitesThisRun, attempts, nextGen>>
  /\ UNCHANGED reader
  /\ runs' = runs - 1
  /\ exported' = NoExport
  /\ lastDelivered' = {}

\* the discovery call rejected: catch and finally of handleSearch
DiscoveryFail ==
  /\ isLoading
  /\ error' = DiscoveryErrorMsg
  /\ researchMessage' = Message("", 0)
  /\ isLoading' = FALSE
  /\ UNCHANGED <<variant, hasMapsKey, now, businesses, discoveredWebsitesThisRun,
                 attempts, nextGen, history>>
  /\ UNCHANGED reader
  /\ runs' = runs - 1
  /\ exported' = NoExport
  /\ lastDelivered' = {}

\* newBusiness with the flag left for a later step to set
NewStreamBusinessIdle(name, website) ==
  [id |-> <<now, website>>,
   discoveryName |-> name,
   discoveryWebsite |-> website,
   companyName |-> "",
   contactName |-> "",
   address |-> "",
   phone |-> "",
   email |-> "",
   description |-> "",
   status |-> DISCOVERED,
   dateFound |-> DateOf(now),
   emailThreadId |-> "N/A",
   isResearching |-> FALSE,
   areaSearched |-> Location,
   businessType |-> BusinessType,
   lat |-> Undefined,
   lng |-> Undefined,
   websiteUri |-> Undefined,
   rating |-> Undefined,
   userRatingCount |-> Undefined]

\* newBusiness of onDiscovery
NewStreamBusiness(name, website) ==
  [id |-> <<now, website>>,
   discoveryName |-> name,
   discoveryWebsite |-> website,
   companyName |-> "",
   contactName |-> "",
   address |-> "",
   phone |-> "",
   email |-> "",
   description |-> "",
   status |-> DISCOVERED,
   dateFound |-> DateOf(now),
   emailThreadId |-> "N/A",
   isResearching |-> TRUE,
   areaSearched |-> Location,
   businessType |-> BusinessType,
   lat |-> Undefined,
   lng |-> Undefined,
   websiteUri |-> Undefined,
   rating |-> Undefined,
   userRatingCount |-> Undefined]

\* alreadyExists of onDiscovery
AlreadyExists(website) ==
  \/ \E i \in Idx : businesses[i].discoveryWebsite = website
  \/ website \in discoveredWebsitesThisRun

\* onDiscovery: one line of the stream handed to the store
OnDiscovery(name, website) ==
  /\ variant \in {"stream", "geocode"}
  /\ isLoading
  /\ UNCHANGED <<reader, runs>>
  /\ exported' = NoExport
  /\ lastDelivered' = {<<name, website>>}
  /\ IF website = "" \/ AlreadyExists(website)
     THEN UNCHANGED <<businesses, history, attempts, nextGen, discoveredWebsitesThisRun>>
     ELSE /\ Len(businesses) < MaxStore
          /\ Committed < MaxAttempts
          /\ discoveredWebsitesThisRun' = discoveredWebsitesThisRun \cup {website}
          /\ businesses' = Append(businesses, NewStreamBusiness(name, website))
          /\ history' = Append(history, NoHistory)
          /\ attempts' = attempts \cup
               {Attempt(businesses, history, nextGen, <<now, website>>, "discovery", FirstCall, <<>>)}
          /\ nextGen' = nextGen + 1
  /\ UNCHANGED <<variant, hasMapsKey, now, isLoading, researchMessage, error>>

\* findBusinessesStream resolved
StreamEnd ==
  /\ variant \in {"stream", "geocode"}
  /\ isLoading
  /\ researchMessage' =
       IF variant = "stream" THEN Message("Discovery stream complete.", 0)
       ELSE Message("Discovery stream complete. Research may still be in progress.", 0)
  /\ isLoading' = FALSE
  /\ UNCHANGED <<variant, hasMapsKey, now, businesses, error, discoveredWebsitesThisRun,
                 attempts, nextGen, history>>
  /\ UNCHANGED reader
  /\ runs' = runs - 1
  /\ exported' = NoExport
  /\ lastDelivered' = {}

\* ------------------------------------------------------------- enrichment
\* the map without the test of the id: every record is replaced
MapEveryRecord(store, id, replacement) ==
  [i \in 1..Len(store) |-> replacement[i]]

\* the updated records moved to the front of the list
MapByIdToFront(store, id, replacement) ==
  SelectSeq([i \in 1..Len(store) |-> replacement[i]], LAMBDA b : b.id = id)
    \o SelectSeq(store, LAMBDA b : b.id # id)

\* prev.map(b => b.id === id ? f(b) : b)
\* (replacement[i] is the object literal evaluated on store[i])
MapById(store, id, replacement) ==
  [i \in 1..Len(store) |-> IF store[i].id = id THEN replacement[i] ELSE store[i]]

\* the spread with the researched company name written over the discovery name too
SpreadResearchRenames(b, researchedData) ==
  [b EXCEPT !.companyName = researchedData.companyName,
            !.contactName = researchedData.contactName,
            !.address = researchedData.address,
            !.phone = researchedData.phone,
            !.email = researchedData.email,
            !.description = researchedData.description,
            !.discoveryName = researchedData.companyName]

\* { ...b, ...researchedData }
SpreadResearch(b, researchedData) ==
  [b EXCEPT !.companyName = researchedData.companyName,
            !.contactName = researchedData.contactName,
            !.address = researchedData.address,
            !.phone = researchedData.phone,
            !.email = researchedData.email,
            !.description = researchedData.description]

\* { ...b, ...coords }: null and undefined spread nothing
SpreadCoords(b, coords) ==
  IF coords = NoCoords THEN b ELSE [b EXCEPT !.lat = coords.lat, !.lng = coords.lng]

\* the object literal of the places processResearchAndGeocoding
MergePlaces(b, researchedData, placeDetails) ==
  [SpreadResearch(b, researchedData) EXCEPT
     !.websiteUri = JsOr(placeDetails.websiteUri, Str(b.discoveryWebsite)),
     !.phone = JsOr(placeDetails.nationalPhoneNumber, Str(b.phone)).value,
     !.address = JsOr(placeDetails.formattedAddress, Str(b.address)).value,
     !.rating = JsOr(placeDetails.rating, Num("0")),
     !.userRatingCount = JsOr(placeDetails.userRatingCount, Num("0")),
     !.isResearching = FALSE]

\* { ...b, ...researchedData, ...coords, isResearching: false }
MergeGeocode(b, researchedData, coords) ==
  [SpreadCoords(SpreadResearch(b, researchedData), coords) EXCEPT !.isResearching = FALSE]

\* { ...b, ...researchedData, isResearching: false } of the stream onDiscovery
MergeStream(b, researchedData) ==
  [SpreadResearch(b, researchedData) EXCEPT !.isResearching = FALSE]

\* the same with dateFound, of the stream handleRetryResearch
MergeStreamRetry(b, researchedData) ==
  [SpreadResearch(b, researchedData) EXCEPT !.isResearching = FALSE,
                                            !.dateFound = DateOf(now)]

\* the catch block with `isResearching: false` left out
MergeFailureKeepsFlag(b, message) ==
  [b EXCEPT !.description = message]

\* the catch block with the description left out
MergeFailureNoMessage(b, message) ==
  [b EXCEPT !.isResearching = FALSE]

\* the catch block rebuilding the record from the discovery fields alone
MergeFailureBlanksFields(b, message) ==
  [b EXCEPT !.description = message, !.isResearching = FALSE,
            !.companyName = "", !.contactName = "", !.address = "", !.phone = "",
            !.email = ""]

\* { ...b, description: message, isResearching: false }
MergeFailure(b, message) ==
  [b EXCEPT !.description = message, !.isResearching = FALSE]

\* the message the catch block of this attempt records
FailureMessage(a) ==
  IF variant = "stream" /\ a.kind = "retry" THEN ResearchFailedAgainMsg ELSE ResearchFailedMsg

SetResearching(b) == [b EXCEPT !.isResearching = TRUE]

Record(hist, store, id, outcome, gen) ==
  [i \in 1..Len(hist) |->
     IF store[i].id = id THEN [outcome |-> outcome, mergedGen |-> gen] ELSE hist[i]]

\* One iteration of the Research All loop over what is left of toResearch (nothing
\* when the loop is over): setBusinesses(prev => prev.map(x => x.id === b.id ?
\* { ...x, isResearching: true } : x)) for its first candidate ...
NextIterationStore(store, rest) ==
  IF rest = <<>> THEN store
  ELSE MapById(store, Head(rest), [k \in 1..Len(store) |-> SetResearching(store[k])])

\* ... and processResearchAndGeocoding called for it, up to its first await
NextIterationAttempts(store, hist, rest) ==
  IF rest = <<>> THEN {}
  ELSE {Attempt(store, hist, nextGen, Head(rest), "all", FirstCall, Tail(rest))}

\* the end of an attempt that also switches the discovery spinner off
FinishEndsLoading(a, merged, outcome) ==
  LET recorded == Record(history, businesses, a.id, outcome, a.gen)
  IN /\ businesses' = NextIterationStore(merged, a.rest)
     /\ history' = recorded
     /\ attempts' = (attempts \ {a}) \cup NextIterationAttempts(merged, recorded, a.rest)
     /\ nextGen' = IF a.rest = <<>> THEN nextGen ELSE nextGen + 1
     /\ isLoading' = FALSE
     /\ UNCHANGED <<variant, hasMapsKey, now, researchMessage, error,
                    discoveredWebsitesThisRun>>
     /\ UNCHANGED <<reader, runs>>
     /\ exported' = NoExport
     /\ lastDelivered' = {}

\* An attempt ends: its updater is applied to the store and the async function
\* returns; the Research All loop that awaited it (if any) resumes in the same task
\* and runs its next iteration: the next candidate is flagged and its attempt issued.
Finish(a, merged, outcome) ==
  LET recorded == Record(history, businesses, a.id, outcome, a.gen)
  IN /\ businesses' = NextIterationStore(merged, a.rest)
     /\ history' = recorded
     /\ attempts' = (attempts \ {a}) \cup NextIterationAttempts(merged, recorded, a.rest)
     /\ nextGen' = IF a.rest = <<>> THEN nextGen ELSE nextGen + 1
     /\ UNCHANGED <<variant, hasMapsKey, now, isLoading, researchMessage, error,
                    discoveredWebsitesThisRun>>
     /\ UNCHANGED <<reader, runs>>
     /\ exported' = NoExport
     /\ lastDelivered' = {}

\* the catch block of processResearchAndGeocoding / of the stream handlers
Fail(a) ==
  LET failure == [i \in Idx |-> MergeFailure(businesses[i], FailureMessage(a))]
  IN Finish(a, MapById(businesses, a.id, failure), "fail")

\* getPlaceDetails resolved and its fields written to the store at once
PlaceDetailsReturnWritesStore(a, placeDetails) ==
  /\ a.pc = "details"
  /\ hasMapsKey
  /\ attempts' = (attempts \ {a}) \cup
       {[a EXCEPT !.pc = "research", !.placeDetails = placeDetails]}
  /\ businesses' = MapById(businesses, a.id,
       [i \in Idx |-> [businesses[i] EXCEPT
          !.websiteUri = JsOr(placeDetails.websiteUri, Str(businesses[i].discoveryWebsite)),
          !.phone = JsOr(placeDetails.nationalPhoneNumber, Str(businesses[i].phone)).value,
          !.address = JsOr(placeDetails.formattedAddress, Str(businesses[i].address)).value,
          !.rating = JsOr(placeDetails.rating, Num("0")),
          !.userRatingCount = JsOr(placeDetails.userRatingCount, Num("0"))]])
  /\ UNCHANGED <<variant, hasMapsKey, now, isLoading, researchMessage, error,
                 discoveredWebsitesThisRun, nextGen, history>>
  /\ UNCHANGED <<reader, runs>>
  /\ exported' = NoExport
  /\ lastDelivered' = {}

\* getPlaceDetails resolved: researchBusiness is called next
PlaceDetailsReturn(a, placeDetails) ==
  /\ a.pc = "details"
  /\ hasMapsKey
  /\ attempts' = (attempts \ {a}) \cup
       {[a EXCEPT !.pc = "research", !.placeDetails = placeDetails]}
  /\ UNCHANGED <<variant, hasMapsKey, now, businesses, isLoading, researchMessage, error,
                 discoveredWebsitesThisRun, nextGen, history>>
  /\ UNCHANGED <<reader, runs>>
  /\ exported' = NoExport
  /\ lastDelivered' = {}

\* the rejection of getPlaceDetails swallowed: researchBusiness is called all the same
PlaceDetailsFailGoesOn(a) ==
  /\ a.pc = "details"
  /\ attempts' = (attempts \ {a}) \cup {[a EXCEPT !.pc = "research"]}
  /\ UNCHANGED <<variant, hasMapsKey, now, businesses, isLoading, researchMessage, error,
                 discoveredWebsitesThisRun, nextGen, history>>
  /\ UNCHANGED <<reader, runs>>
  /\ exported' = NoExport
  /\ lastDelivered' = {}

\* getPlaceDetails rejected (no key, HTTP error, transport error)
PlaceDetailsFail(a) ==
  /\ a.pc = "details"
  /\ Fail(a)

\* researchBusiness resolved
ResearchReturn(a, researchedData) ==
  LET places == [i \in Idx |-> MergePlaces(businesses[i], researchedData, a.placeDetails)]
      stream == [i \in Idx |-> MergeStream(businesses[i], researchedData)]
      retry == [i \in Idx |-> MergeStreamRetry(businesses[i], researchedData)]
      geocode == [i \in Idx |-> MergeGeocode(businesses[i], researchedData, NoCoords)]
  IN /\ a.pc = "research"
     /\ CASE variant = "places" ->
               Finish(a, MapById(businesses, a.id, places), "ok")
          [] variant = "stream" /\ a.kind = "retry" ->
               Finish(a, MapById(businesses, a.id, retry), "ok")
          [] variant = "stream" /\ a.kind # "retry" ->
               Finish(a, MapById(businesses, a.id, stream), "ok")
          [] variant = "geocode" /\ researchedData.address \in {"", NotFound} ->
               Finish(a, MapById(businesses, a.id, geocode), "ok")
          [] /\ variant = "geocode"
             /\ researchedData.address \notin {"", NotFound}
             /\ hasMapsKey
             /\ HasLoneSurrogate(researchedData.address) ->
               Fail(a)
          [] OTHER ->
               /\ attempts' = (attempts \ {a}) \cup
                    {[a EXCEPT !.pc = "geocode", !.researchedData = researchedData]}
               /\ UNCHANGED <<variant, hasMapsKey, now, businesses, isLoading,
                              researchMessage, error, discoveredWebsitesThisRun, nextGen,
                              history>>
               /\ UNCHANGED <<reader, runs>>
               /\ exported' = NoExport
               /\ lastDelivered' = {}

\* researchBusiness rejected
ResearchFail(a) ==
  /\ a.pc = "research"
  /\ Fail(a)

\* geocodeAddress throwing when the key is missing, as makePlacesRequest does
GeocodeThrowsWithoutKey(a, coords) ==
  LET geocode == [i \in Idx |-> MergeGeocode(businesses[i], a.researchedData, coords)]
  IN /\ a.pc = "geocode"
     /\ IF hasMapsKey
        THEN Finish(a, MapById(businesses, a.id, geocode), "ok")
        ELSE coords = NoCoords /\ Fail(a)

\* geocodeAddress resolved: a location, or null (no key, no result, fetch error)
GeocodeReturn(a, coords) ==
  LET geocode == [i \in Idx |-> MergeGeocode(businesses[i], a.researchedData, coords)]
  IN /\ a.pc = "geocode"
     /\ coords # NoCoords => hasMapsKey
     /\ Finish(a, MapById(businesses, a.id, geocode), "ok")

\* ------------------------------------------- the updaters, as functions of prev
\* the updater of the success path of an attempt: prev.map(b => b.id === id ? {...} : b)
MergeUpdater(prev, a, researchedData, coords) ==
  MapById(prev, a.id,
          [i \in 1..Len(prev) |->
             CASE variant = "places" -> MergePlaces(prev[i], researchedData, a.placeDetails)
               [] variant = "stream" /\ a.kind = "retry" -> MergeStreamRetry(prev[i], researchedData)
               [] variant = "stream" /\ a.kind # "retry" -> MergeStream(prev[i], researchedData)
               [] OTHER -> MergeGeocode(prev[i], researchedData, coords)])

\* the updater of the catch block of an attempt
FailureUpdater(prev, a) ==
  MapById(prev, a.id, [i \in 1..Len(prev) |-> MergeFailure(prev[i], FailureMessage(a))])

\* the updater of onDiscovery
OnDiscoveryUpdater(currentBusinesses, name, website) ==
  IF \/ website = ""
     \/ \E i \in 1..Len(currentBusinesses) : currentBusinesses[i].discoveryWebsite = website
     \/ website \in discoveredWebsitesThisRun
  THEN currentBusinesses
  ELSE Append(currentBusinesses, NewStreamBusiness(name, website))

\* the updater of the places handleSearch
HandleSearchUpdater(prev, places) ==
  prev \o UniqueNewBusinesses(prev, [k \in 1..Len(places) |-> NewPlaceBusiness(places[k])])

\* ------------------------------------------------------ retry, Research All
\* the Retry button of a row (rendered only while the row is not researching)
HandleRetryResearch(i) ==
  LET businessId == businesses[i].id
  IN /\ ~businesses[i].isResearching
     /\ Committed < MaxAttempts
     /\ businesses' = MapById(businesses, businessId, [k \in Idx |-> SetResearching(businesses[k])])
     /\ attempts' = attempts \cup
          {Attempt(businesses, history, nextGen, businessId, "retry", FirstCall, <<>>)}
     /\ nextGen' = nextGen + 1
     /\ UNCHANGED <<variant, hasMapsKey, now, isLoading, researchMessage, error,
                    discoveredWebsitesThisRun, history>>
     /\ UNCHANGED <<reader, runs>>
     /\ exported' = NoExport
     /\ lastDelivered' = {}

\* businesses.filter(b => !b.isResearching && b.status === DISCOVERED), as ids
ToResearch ==
  LET picked == SelectSeq(businesses,
                          LAMBDA b : ~b.isResearching /\ b.status = DISCOVERED)
  IN [k \in 1..Len(picked) |-> picked[k].id]

\* the Research All button: toResearch is taken from the rendered store and the
\* loop runs its first iteration, up to the await of processResearchAndGeocoding
ResearchAll ==
  /\ variant = "places"
  /\ businesses # <<>>
  /\ \E i \in Idx : businesses[i].status = DISCOVERED
  /\ ToResearch # <<>>
  /\ Committed + Len(ToResearch) <= MaxAttempts
  /\ businesses' = NextIterationStore(businesses, ToResearch)
  /\ attempts' = attempts \cup NextIterationAttempts(businesses, history, ToResearch)
  /\ nextGen' = nextGen + 1
  /\ UNCHANGED <<variant, hasMapsKey, now, isLoading, researchMessage, error,
                 discoveredWebsitesThisRun, history>>
  /\ UNCHANGED <<reader, runs>>
  /\ exported' = NoExport
  /\ lastDelivered' = {}

\* ------------------------------------------------------------------ export
\* the columns of a row of exportToCsv, in order (the stream App writes the
\* description before the website)
Columns ==
  IF variant = "stream"
  THEN <<"companyName", "contactName", "address", "phone", "email", "description",
         "discoveryWebsite", "status", "dateFound", "emailThreadId", "areaSearched",
         "businessType">>
  ELSE <<"companyName", "contactName", "address", "phone", "email", "discoveryWebsite",
         "description", "status", "dateFound", "emailThreadId", "areaSearched",
         "businessType">>

\* businesses.map(b => [b.companyName, ...])
Rows(store) ==
  [i \in 1..Len(store) |-> [k \in 1..Len(Columns) |-> store[i][Columns[k]]]]

\* the position of the first " of the text at or after position i, Len + 1 if none
RECURSIVE NextQuote(_, _)
NextQuote(cell, i) ==
  IF i > Len(cell) THEN i
  ELSE IF SubSeq(cell, i, i) = "\"" THEN i
  ELSE NextQuote(cell, i + 1)

\* the text from position i on, with "" for every ": the global replace copies the
\* text up to each match, then the replacement, and the rest after the last match
RECURSIVE ReplaceQuotesFrom(_, _)
ReplaceQuotesFrom(cell, i) ==
  LET q == NextQuote(cell, i)
  IN IF q > Len(cell) THEN SubSeq(cell, i, Len(cell))
     ELSE SubSeq(cell, i, q - 1) \o "\"\"" \o ReplaceQuotesFrom(cell, q + 1)

\* cell.replace(/"/g, '""')
ReplaceQuotes(cell) == ReplaceQuotesFrom(cell, 1)

\* `"${cell ? cell.replace(/"/g, '""') : ''}"`: the cell between double quotes, its
\* own double quotes doubled (every column of a row is a string, and '' is written
\* as '' with the `cell ?` test and, in the stream App, without it)
EscapeCsvCell(cell) == "\"" \o ReplaceQuotes(cell) \o "\""

\* b.dateFound, a string in the program: the text of the day number kept here
DateText(day) == ToString(day)

\* the cells of the data lines of csvContent: rowArray.map(escapeCsvCell) of each row
Cells(store) ==
  LET rows == Rows(store)
  IN [i \in 1..Len(store) |->
        [k \in 1..Len(Columns) |->
           IF Columns[k] = "dateFound"
           THEN EscapeCsvCell(DateText(rows[i][k]))
           ELSE EscapeCsvCell(rows[i][k])]]

\* encodeURI(csvContent) throws URIError: some cell is not well-formed UTF-16
\* (the headers and the date are)
EncodeURIThrows(store) ==
  LET rows == Rows(store)
  IN \E i \in 1..Len(store) : \E k \in 1..Len(Columns) :
       Columns[k] # "dateFound" /\ HasLoneSurrogate(rows[i][k])

\* the Export to CSV button (disabled while the store is empty or a row is
\* researching): the data lines of the download, one sequence of cells per record;
\* when encodeURI throws, the handler ends before the link exists and nothing is
\* downloaded
ExportToCsv ==
  /\ ~(Len(businesses) = 0 \/ \E i \in Idx : businesses[i].isResearching)
  /\ Len(businesses) # 0
  /\ exported' = IF EncodeURIThrows(businesses) THEN NoExport ELSE Cells(businesses)
  /\ UNCHANGED <<variant, hasMapsKey, now, businesses, isLoading, researchMessage, error,
                 discoveredWebsitesThisRun, attempts, nextGen, history>>
  /\ UNCHANGED <<reader, runs>>
  /\ lastDelivered' = {}

Tick ==
  /\ now < MaxClock
  /\ now' = now + 1
  /\ UNCHANGED <<variant, hasMapsKey, businesses, isLoading, researchMessage, error,
                 discoveredWebsitesThisRun, attempts, nextGen, history>>
  /\ UNCHANGED <<reader, runs>>
  /\ exported' = NoExport
  /\ lastDelivered' = {}

Next ==
  \/ HandleSearch
  \/ \E places \in SeqsUpTo(Places, MaxBatch) : SearchPlacesReturn(places)
  \/ DiscoveryFail
  \/ \E name \in StreamNames, website \in StreamWebsites : OnDiscovery(name, website)
  \/ StreamEnd
  \/ \E a \in attempts, placeDetails \in PlaceDetailsResults : PlaceDetailsReturn(a, placeDetails)
  \/ \E a \in attempts : PlaceDetailsFail(a)
  \/ \E a \in attempts, researchedData \in ResearchResults : ResearchReturn(a, researchedData)
  \/ \E a \in attempts : ResearchFail(a)
  \/ \E a \in attempts, coords \in GeocodeResults \cup {NoCoords} : GeocodeReturn(a, coords)
  \/ \E i \in Idx : HandleRetryResearch(i)
  \/ ResearchAll
  \/ ExportToCsv

\* the session with the clock standing still
Spec == Init /\ [][Next]_vars

\* the session with the clock running
NextClock == Next \/ Tick

SpecClock == Init /\ [][NextClock]_vars

\* ------------------------------------------ findBusinessesStream at work
\* the texts a response may consist of, and the ways the transport may cut one
StreamTexts == {Join(lines) : lines \in SeqsUpTo(StreamLines, MaxLines)}

Chunkings(text) ==
  {ChunksOf(text, cuts) :
     cuts \in {c \in SeqsUpTo(0..Len(text), MaxCuts) :
                 \A k \in 1..(Len(c) - 1) : c[k] <= c[k + 1]}}

\* generateContentStream resolved: nothing read yet, the buffer empty
InitStream ==
  /\ variant = "stream"
  /\ hasMapsKey = FALSE
  /\ now = 0
  /\ businesses = <<>>
  /\ isLoading = TRUE
  /\ researchMessage = Message("Discovering businesses...", 0)
  /\ error = NoError
  /\ discoveredWebsitesThisRun = {}
  /\ attempts = {}
  /\ nextGen = 1
  /\ history = <<>>
  /\ lastDelivered = {}
  /\ runs = 1
  /\ exported = NoExport
  /\ \E text \in StreamTexts : \E chunks \in Chunkings(text) :
       reader = [NoStream EXCEPT !.chunks = chunks]

\* one iteration of `for await`: the chunk is appended and the buffer drained
ReadChunk ==
  LET chunk == reader.chunks[reader.read + 1]
      drained == Drain(reader.buffer \o chunk)
  IN /\ ~reader.done
     /\ reader.read < Len(reader.chunks)
     /\ reader' = [reader EXCEPT !.read = reader.read + 1,
                                 !.buffer = drained.buffer,
                                 !.calls = reader.calls \o drained.calls]
     /\ UNCHANGED <<variant, hasMapsKey, now, businesses, isLoading, researchMessage, error,
                    discoveredWebsitesThisRun, attempts, nextGen, history,
                    lastDelivered, runs, exported>>

\* the stream has ended: the rest of the buffer is processed
EndOfStream ==
  /\ ~reader.done
  /\ reader.read = Len(reader.chunks)
  /\ reader' = [reader EXCEPT !.calls = reader.calls \o Flush(reader.buffer),
                              !.done = TRUE]
  /\ UNCHANGED <<variant, hasMapsKey, now, businesses, isLoading, researchMessage, error,
                 discoveredWebsitesThisRun, attempts, nextGen, history,
                 lastDelivered, runs, exported>>

NextStream ==
  \/ ReadChunk
  \/ EndOfStream

\* findBusinessesStream reading one response
SpecStream == InitStream /\ [][NextStream]_vars

\* ---------------------------------------------------------------- fairness
\* a call that ends without reaching an external source: without the key
\* makePlacesRequest throws before its fetch, and geocodeAddress returns null
\* before it builds its request
LocalCallEnds ==
  \/ variant = "places" /\ ~hasMapsKey /\ DiscoveryFail
  \/ \E a \in attempts : ~hasMapsKey /\ GeocodeReturn(a, NoCoords)

\* the session in which the program's own continuations run but an external source
\* need not ever answer
SpecHang ==
  /\ Init
  /\ [][Next]_vars
  /\ WF_vars(LocalCallEnds)

\* ------------------------------------------------------------ vocabulary
EnrichedFields == {"companyName", "contactName", "address", "phone", "email", "description"}

Empty == {"", NotFound}

\* enrichmentState of the specification, read off isResearching and the last outcome
EnrichmentState(i) ==
  IF businesses[i].isResearching THEN "InProgress"
  ELSE CASE history[i].outcome = "none" -> "Pending"
         [] history[i].outcome = "ok" -> "Done"
         [] history[i].outcome = "fail" -> "Failed"

EnrichmentStateNext(i) ==
  IF businesses'[i].isResearching THEN "InProgress"
  ELSE CASE history'[i].outcome = "none" -> "Pending"
         [] history'[i].outcome = "ok" -> "Done"
         [] history'[i].outcome = "fail" -> "Failed"

\* the dedupe key the code uses: the place id, or the discovery website
DedupeKey(b) == IF variant = "places" THEN b.id ELSE b.discoveryWebsite

\* the dedupe key of the specification: the external id, or the name+website pair
IdentifyingKey(b) ==
  IF variant = "places" THEN b.id ELSE <<b.discoveryName, b.discoveryWebsite>>

\* the attempts issued by the step
Issued == {a \in attempts' : a.gen >= nextGen}

\* the step issues an attempt for this id
Restarted(id) == \E b \in Issued : b.id = id

\* the step runs the next iteration of the Research All loop that awaited attempt a:
\* one attempt is issued, for the next candidate of the run, with the rest of the run
RunGoesOn(a) ==
  IF a.rest = <<>> THEN Issued = {}
  ELSE /\ Cardinality(Issued) = 1
       /\ \A b \in Issued : b.kind = "all" /\ b.id = Head(a.rest) /\ b.rest = Tail(a.rest)

\* ----------------------------------------------------------------- claims
\* C1: in every reachable state no two candidates of the store have the same id,
\* also after a batch response that names one external id twice.
C1_UniqueIds ==
  \A i, j \in Idx : businesses[i].id = businesses[j].id => i = j

\* C2: admission never inserts a candidate whose dedupe key already belongs to a
\* candidate of the store or to a candidate admitted earlier in the same run.
C2_NoDuplicateAdmission ==
  [][\A i \in (Len(businesses) + 1)..Len(businesses') :
       \A j \in 1..(i - 1) : DedupeKey(businesses'[j]) # DedupeKey(businesses'[i])]_vars

\* C3: once discovery results have been handed to the store, the store holds exactly
\* one candidate for each identifying key delivered (external id, or name+website
\* pair), whatever the order and whether delivered as a batch or as a stream.
C3_OnePerDeliveredKey ==
  \A k \in lastDelivered :
    Cardinality({i \in Idx : IdentifyingKey(businesses[i]) = k}) = 1

\* C4: no step takes an enriched field of a candidate from non-empty to empty or
\* "Not Found".
C4_NoFieldRegresses ==
  [][\A i \in Idx : \A f \in EnrichedFields :
       businesses[i][f] \notin Empty => businesses'[i][f] \notin Empty]_vars

\* C5: the enrichment state of a candidate moves only Pending -> InProgress and
\* InProgress -> Done or Failed; a candidate that is not Pending goes (back) to
\* InProgress only through a retry of that candidate.
C5_StateTransitions ==
  [][\A i \in Idx :
       \/ EnrichmentStateNext(i) = EnrichmentState(i)
       \/ EnrichmentState(i) = "Pending" /\ EnrichmentStateNext(i) = "InProgress"
       \/ EnrichmentState(i) = "InProgress" /\ EnrichmentStateNext(i) \in {"Done", "Failed"}
       \/ /\ EnrichmentState(i) \in {"Failed", "Done"}
          /\ EnrichmentStateNext(i) = "InProgress"
          /\ \E a \in Issued : a.kind = "retry" /\ a.id = businesses[i].id]_vars

\* C6: at most one enrichment attempt is outstanding per candidate id.
C6_OneAttemptPerCandidate ==
  \A a, b \in attempts : a.id = b.id => a = b

\* C7: the completion of an attempt never overwrites the result of an attempt that
\* was issued after it.
C7_StaleCompletionDiscarded ==
  [][\A i \in Idx : history'[i].mergedGen >= history[i].mergedGen]_vars

\* C8: Research All issues no attempt for a candidate that is Done or InProgress at
\* the moment the loop reaches it.
C8_ResearchAllOnlyUnenriched ==
  \A a \in attempts : a.kind = "all" => ~a.wasResearching /\ a.wasOutcome # "ok"

\* C9: a candidate is InProgress only while an external call of an attempt for it is
\* outstanding: once the calls have returned or failed it has left InProgress.
C9_NoStuckInProgress ==
  \A i \in Idx :
    businesses[i].isResearching => \E a \in attempts : a.id = businesses[i].id

\* a candidate whose attempt failed, with no call left outstanding
C9_Witness ==
  \E i \in Idx :
    /\ history[i].outcome = "fail"
    /\ ~businesses[i].isResearching
    /\ \A a \in attempts : a.id # businesses[i].id

\* C10: a failed attempt is recorded on its candidate alone: the records with its id
\* hold the failure message and are not InProgress (unless the Research All run that
\* awaited the attempt comes to the same id next and starts it again), no other
\* record gets a message or an outcome, the error banner is unchanged, and nothing
\* is thrown to the Research All loop that awaited the attempt: it goes on.
C10_FailureStaysOnCandidate ==
  [][\A a \in attempts :
       (a \notin attempts' /\ \E i \in Idx : history'[i] = [outcome |-> "fail", mergedGen |-> a.gen])
       => /\ error' = error
          /\ isLoading' = isLoading
          /\ Len(businesses') = Len(businesses)
          /\ RunGoesOn(a)
          /\ \A i \in Idx :
               IF businesses[i].id = a.id
               THEN /\ businesses'[i].isResearching => Restarted(a.id)
                    /\ businesses'[i].description \in {ResearchFailedMsg, ResearchFailedAgainMsg}
               ELSE /\ history'[i] = history[i]
                    /\ businesses'[i] =
                         IF Restarted(businesses[i].id) THEN SetResearching(businesses[i])
                         ELSE businesses[i]]_vars

\* a failure recorded on one of two candidates while no error banner is shown
C10_Witness ==
  /\ Len(businesses) >= 2
  /\ error = NoError
  /\ \E i \in Idx :
       /\ history[i].outcome = "fail"
       /\ businesses[i].description \in {ResearchFailedMsg, ResearchFailedAgainMsg}
       /\ \E j \in Idx : businesses[j].id # businesses[i].id /\ history[j].outcome # "fail"

\* C11: a retry of an existing candidate sets it InProgress and overwrites the
\* dateFound stored for it with the day of the retry, in every variant.
C11_RetryStampsDate ==
  [][\A a \in Issued :
       a.kind = "retry" =>
         \A i \in Idx :
           businesses[i].id = a.id =>
             /\ businesses'[i].isResearching
             /\ businesses'[i].dateFound = DateOf(now)]_vars

\* the fields a failed attempt leaves alone: every enriched field but description,
\* and the coordinates
KeptByFailure == {"companyName", "contactName", "address", "phone", "email", "lat", "lng"}

\* the attempts that end in the step (an attempt that goes on keeps its number)
Ended == {a \in attempts : \A b \in attempts' : b.gen # a.gen}

\* C12: a retry whose enrichment call fails leaves every enriched field other than
\* description, and the coordinates, as they were: the Retry step changes none of
\* them, no step taken while the retry is in flight changes them unless it is the
\* completion of an attempt for this candidate, and the failure of the retry changes
\* none of them and leaves the candidate Failed.
C12_FailedRetryKeepsFields ==
  [][\A i \in Idx :
       LET own == {a \in attempts : a.id = businesses[i].id}
       IN /\ (\E a \in Issued : a.kind = "retry" /\ a.id = businesses[i].id)
               => /\ \A f \in KeptByFailure : businesses'[i][f] = businesses[i][f]
                  /\ businesses'[i].description = businesses[i].description
          /\ ((\E a \in own : a.kind = "retry") /\ own \cap Ended = {})
               => \A f \in KeptByFailure : businesses'[i][f] = businesses[i][f]
          /\ (\E a \in own \cap Ended :
                a.kind = "retry" /\ history'[i] = [outcome |-> "fail", mergedGen |-> a.gen])
               => /\ \A f \in KeptByFailure : businesses'[i][f] = businesses[i][f]
                  /\ EnrichmentStateNext(i) = "Failed"]_vars

\* an enriched candidate of the stream variant whose retry has failed
C12_Witness ==
  \E i \in Idx :
    /\ businesses[i].description = ResearchFailedAgainMsg
    /\ history[i].outcome = "fail"
    /\ ~businesses[i].isResearching
    /\ businesses[i].phone = "555-1234"
    /\ businesses[i].contactName = "Ann"

\* C13: when the discovery call fails (also in the middle of a stream) the operation
\* ends with the error banner set to the discovery message, and every candidate
\* admitted before is still in the store with its fields, its enrichment still
\* outstanding.
C13_DiscoveryFailureKeepsCandidates ==
  [][(isLoading /\ ~isLoading' /\ researchMessage'.text = "")
       => /\ error' = DiscoveryErrorMsg
          /\ businesses' = businesses
          /\ attempts' = attempts
          /\ history' = history]_vars

\* a stream that failed after a candidate was admitted, its enrichment still in flight
C13_Witness ==
  /\ error = DiscoveryErrorMsg
  /\ ~isLoading
  /\ researchMessage.text = ""
  /\ \E i \in Idx :
       /\ businesses[i].isResearching
       /\ \E a \in attempts : a.id = businesses[i].id /\ a.kind = "discovery"

\* the calls the claim describes for a sequence of lines: in order, for each line
\* that contains '|' with a non-empty trimmed name before it and a trimmed second
\* part starting with "http", that name and that second part
RECURSIVE ExpectedCalls(_)
ExpectedCalls(lines) ==
  IF lines = <<>> THEN <<>>
  ELSE LET line == Head(lines)
           parts == Split(line, Bar)
           kept == /\ Includes(line, Bar)
                   /\ Trim(parts[1]) # <<>>
                   /\ StartsWith(Trim(parts[2]), Http)
       IN (IF kept THEN <<[name |-> Trim(parts[1]), website |-> Trim(parts[2])]>> ELSE <<>>)
            \o ExpectedCalls(Tail(lines))

\* C14: findBusinessesStream is independent of the chunk boundaries: once the
\* stream has ended the onDiscovery calls are those of the lines of the whole text,
\* and before, those of the complete lines read so far, the partial last line
\* being held in the buffer.
C14_ChunkIndependent ==
  LET text == Concat(reader.chunks)
      seen == Split(Concat(SubSeq(reader.chunks, 1, reader.read)), Newline)
  IN IF reader.done
     THEN reader.calls = ExpectedCalls(Split(text, Newline))
     ELSE /\ reader.calls = ExpectedCalls(SubSeq(seen, 1, Len(seen) - 1))
          /\ reader.buffer = seen[Len(seen)]

\* three lines cut inside the first and inside the last one: two calls, none for the
\* malformed middle line, the last line flushed at the end of the stream
C14_Witness ==
  /\ reader.done
  /\ Len(reader.chunks) = 3
  /\ LET lines == Split(Concat(reader.chunks), Newline)
     IN /\ Len(lines) = 3
        /\ ExpectedCalls(<<lines[2]>>) = <<>>
        /\ lines[2] # <<>>
        /\ Len(reader.chunks[1]) \in 1..(Len(lines[1]) - 1)
        /\ Len(reader.chunks[3]) \in 1..(Len(lines[3]) - 1)
  /\ Len(reader.calls) = 2
  /\ reader.calls[1].name # reader.calls[2].name

\* place details supply a value: getPlaceDetails answers '' for a missing field
Supplied(v) == v \notin {Str(""), Undefined}

\* C15: after a successful enrichment by place details and generative research,
\* address, phone and website hold the place-details value whenever place details
\* supply one; otherwise address and phone hold the generative value (which has no
\* website); contact name and description are the generative ones.
C15_PlaceDetailsPrecedence ==
  [][\A a \in Ended :
       (variant = "places" /\ a.pc = "research")
       => \A i \in Idx :
            history'[i] = [outcome |-> "ok", mergedGen |-> a.gen]
            => \E researchedData \in ResearchResults :
                 /\ businesses'[i].contactName = researchedData.contactName
                 /\ businesses'[i].description = researchedData.description
                 /\ businesses'[i].phone =
                      IF Supplied(a.placeDetails.nationalPhoneNumber)
                      THEN a.placeDetails.nationalPhoneNumber.value ELSE researchedData.phone
                 /\ businesses'[i].address =
                      IF Supplied(a.placeDetails.formattedAddress)
                      THEN a.placeDetails.formattedAddress.value ELSE researchedData.address
                 /\ Supplied(a.placeDetails.websiteUri)
                      => businesses'[i].websiteUri = a.placeDetails.websiteUri]_vars

\* C16: a field the research answers as "Not Found" is merged as empty: no enriched
\* field of a candidate of the store holds the literal "Not Found".
C16_NotFoundNeverStored ==
  \A i \in Idx : \A f \in EnrichedFields : businesses[i][f] # NotFound

\* what a reader sees of the enrichment of a record
MergedFields ==
  EnrichedFields \cup {"lat", "lng", "websiteUri", "rating", "userRatingCount", "dateFound"}

\* what the external calls of an attempt may have answered when it completes
\* (only the geocode App calls geocodeAddress)
CompletionInputs ==
  {[ok |-> TRUE, researchedData |-> r, coords |-> c] :
     r \in ResearchResults,
     c \in IF variant = "geocode" THEN GeocodeResults \cup {NoCoords} ELSE {NoCoords}}
  \cup {[ok |-> FALSE, researchedData |-> NoResearch, coords |-> NoCoords]}

\* the store after the completion of attempt a with these answers
AfterCompletion(store, a, in) ==
  IF in.ok THEN MergeUpdater(store, a, in.researchedData, in.coords)
  ELSE FailureUpdater(store, a)

\* C17: a merge is one store update: a step either leaves every enrichment field of
\* a candidate as it was, or it is the completion of an attempt for that candidate
\* and the store it leaves is the whole merge of that attempt (generative fields,
\* place-details overrides, coordinates and the cleared flag together).
C17_MergeIsAtomic ==
  [][\A i \in Idx :
       \/ \A f \in MergedFields : businesses'[i][f] = businesses[i][f]
       \/ \E a \in Ended :
            /\ a.id = businesses[i].id
            /\ businesses'[i].isResearching => Restarted(a.id)
            /\ \E in \in CompletionInputs :
                 businesses' = NextIterationStore(AfterCompletion(businesses, a, in), a.rest)]_vars

\* one candidate fully merged, and one whose place details have arrived while its
\* research is outstanding: its record shows nothing of them yet
C17_Witness ==
  /\ \E i \in Idx :
       /\ history[i].outcome = "ok"
       /\ businesses[i].contactName = "Ann"
       /\ businesses[i].rating = Num("4.5")
       /\ ~businesses[i].isResearching
  /\ \E a \in attempts :
       /\ a.pc = "research"
       /\ Supplied(a.placeDetails.websiteUri)
       /\ \E i \in Idx :
            /\ businesses[i].id = a.id
            /\ businesses[i].websiteUri = Undefined
            /\ businesses[i].contactName = ""
            /\ businesses[i].isResearching

\* C18: for outstanding attempts on distinct candidates the store does not depend
\* on the order in which their completions arrive, nor on whether an admission
\* comes before or after a completion.
C18_CompletionOrderIrrelevant ==
  \A a \in attempts : \A ina \in CompletionInputs :
    /\ \A b \in attempts : \A inb \in CompletionInputs :
         (a.id # b.id /\ a.gen < b.gen) =>
           AfterCompletion(AfterCompletion(businesses, a, ina), b, inb)
             = AfterCompletion(AfterCompletion(businesses, b, inb), a, ina)
    /\ \A name \in StreamNames, website \in StreamWebsites :
         variant # "places" =>
           AfterCompletion(OnDiscoveryUpdater(businesses, name, website), a, ina)
             = OnDiscoveryUpdater(AfterCompletion(businesses, a, ina), name, website)
    /\ \A places \in SeqsUpTo(Places, MaxBatch) :
         variant = "places" =>
           AfterCompletion(HandleSearchUpdater(businesses, places), a, ina)
             = HandleSearchUpdater(AfterCompletion(businesses, a, ina), places)

\* two attempts on different candidates outstanding while the stream is still open
C18_Witness ==
  /\ isLoading
  /\ \E a, b \in attempts :
       /\ a.id # b.id
       /\ a.pc \in {"research", "geocode"}
       /\ b.pc \in {"research", "geocode"}
       /\ \E i, j \in Idx : i # j /\ businesses[i].id = a.id /\ businesses[j].id = b.id

\* C19: the store is append-only and keeps the order of insertion: every step leaves
\* each candidate at its position and puts new candidates after the existing ones.
C19_AppendOnlyOrdered ==
  [][/\ Len(businesses') >= Len(businesses)
     /\ \A i \in Idx :
          /\ businesses'[i].id = businesses[i].id
          /\ businesses'[i].discoveryName = businesses[i].discoveryName
          /\ businesses'[i].discoveryWebsite = businesses[i].discoveryWebsite]_vars

\* two candidates admitted one after the other, the first one enriched meanwhile
C19_Witness ==
  /\ Len(businesses) = 2
  /\ businesses[1].id # businesses[2].id
  /\ history[1].outcome = "ok"
  /\ businesses[2].dateFound >= businesses[1].dateFound
  /\ history[2].outcome = "fail"

\* every step that changes the store is one of the updaters applied to it
StepsAreUpdaters ==
  [][\/ businesses' = businesses
     \/ \E a \in Ended : \E in \in CompletionInputs :
          businesses' = NextIterationStore(AfterCompletion(businesses, a, in), a.rest)
     \/ /\ variant # "places"
        /\ \E name \in StreamNames, website \in StreamWebsites :
             businesses' = OnDiscoveryUpdater(businesses, name, website)
     \/ /\ variant = "places"
        /\ \E places \in SeqsUpTo(Places, MaxBatch) :
             businesses' = HandleSearchUpdater(businesses, places)
     \/ \E id \in {businesses[i].id : i \in Idx} :
          businesses' = MapById(businesses, id, [k \in Idx |-> SetResearching(businesses[k])])]_vars

PlaceIds == {place.id : place \in Places}

\* a Research All run has this candidate in hand or still before it
Targeted(id) ==
  /\ variant = "places"
  /\ \E a \in attempts :
       a.kind = "all" /\ (a.id = id \/ \E k \in 1..Len(a.rest) : a.rest[k] = id)

\* no run has the candidate in hand or before it, and it has been attempted
Settled(id) ==
  /\ variant = "places"
  /\ ~Targeted(id)
  /\ \A i \in Idx :
       businesses[i].id = id => ~businesses[i].isResearching /\ history[i].outcome # "none"

\* C20: a Research All run terminates after attempting every candidate it targets:
\* each one, also after the failure of an earlier one, is attempted and ends not
\* InProgress, and an attempt of the run whose calls all succeed leaves its
\* candidate Done with a non-empty description.
C20_ResearchAllTerminates ==
  /\ \A id \in PlaceIds : Targeted(id) ~> Settled(id)
  /\ [][\A a \in Ended : \A i \in Idx :
          (a.kind = "all" /\ history'[i] = [outcome |-> "ok", mergedGen |-> a.gen])
          => /\ EnrichmentStateNext(i) = "Done" \/ Restarted(a.id)
             /\ businesses'[i].description \notin {"", ResearchFailedMsg}]_vars

\* C21: every external call has a bounded wait: a candidate that is InProgress
\* leaves InProgress (to Failed, by a timeout) even if the source never answers.
C21_BoundedWait ==
  \A i \in 1..MaxStore :
    (i \in Idx /\ businesses[i].isResearching)
      ~> (i \in Idx /\ ~businesses[i].isResearching)

\* C22: a candidate created by discovery has status Discovered and empty enriched
\* fields until an enrichment attempt for it has completed.
C22_StartsEmpty ==
  \A i \in Idx :
    history[i].outcome = "none"
    => /\ businesses[i].status = DISCOVERED
       /\ \A f \in EnrichedFields : businesses[i][f] = ""

\* C23: enrichment completion, enrichment failure, retry and Research All (and every
\* other step) leave id, discoveryName, discoveryWebsite and status of every candidate
\* as they were given at creation, and status is Discovered throughout.
C23_IdentityFieldsFrozen ==
  [][/\ \A i \in Idx :
          /\ businesses'[i].id = businesses[i].id
          /\ businesses'[i].discoveryName = businesses[i].discoveryName
          /\ businesses'[i].discoveryWebsite = businesses[i].discoveryWebsite
          /\ businesses'[i].status = businesses[i].status
     /\ \A i \in 1..Len(businesses') : businesses'[i].status = DISCOVERED]_vars

\* a candidate whose enrichment completed with a researched company name that
\* differs from the name it was discovered with, after an earlier candidate failed
C23_Witness ==
  \E i \in Idx :
    /\ history[i].outcome = "ok"
    /\ \E j \in Idx : j < i /\ history[j].outcome = "fail"
    /\ businesses[i].companyName # businesses[i].discoveryName
    /\ businesses[i].status = DISCOVERED

\* an id no record of the store has
AbsentId == IF variant = "places" THEN "p0" ELSE <<0, "https://absent.example">>

\* C24: the completion or failure of an attempt for candidate id X changes only the
\* records with id X: the other records, the number of records and the discovery
\* loading flag are as before the step; and the updater of a completion for an id
\* that is not in the store returns the store it was given.
C24_CompletionTouchesOwnRecord ==
  /\ [][\A a \in Ended :
          /\ Len(businesses') = Len(businesses)
          /\ isLoading' = isLoading
          /\ \A i \in Idx : businesses[i].id # a.id => businesses'[i] = businesses[i]]_vars
  /\ [](\A a \in attempts : \A in \in CompletionInputs :
          AfterCompletion(businesses, [a EXCEPT !.id = AbsentId], in) = businesses)

\* C24, amended: the completion or failure of an attempt for candidate id X changes
\* only the records with id X, except that when the attempt belongs to a Research All
\* run with candidates left the same step starts the next candidate of the run (its
\* records are set InProgress, nothing else of them changes, and its attempt is
\* issued); every other record, the number of records and the discovery loading flag
\* are as before the step; and the updater of a completion for an id that is not in
\* the store returns the store it was given.
C24_CompletionStartsNextOnly ==
  /\ [][\A a \in Ended :
          /\ Len(businesses') = Len(businesses)
          /\ isLoading' = isLoading
          /\ RunGoesOn(a)
          /\ \A i \in Idx :
               businesses[i].id # a.id =>
                 businesses'[i] =
                   IF a.rest # <<>> /\ businesses[i].id = Head(a.rest)
                   THEN SetResearching(businesses[i])
                   ELSE businesses[i]]_vars
  /\ [](\A a \in attempts : \A in \in CompletionInputs :
          AfterCompletion(businesses, [a EXCEPT !.id = AbsentId], in) = businesses)

\* a discovery running while the first candidate of a Research All run has been
\* enriched and the run has gone on to the second one: the second is InProgress with
\* the attempt of the run, all its other fields as discovered
C24_Witness ==
  /\ variant = "places"
  /\ isLoading
  /\ Len(businesses) = 2
  /\ businesses[1].id # businesses[2].id
  /\ history[1].outcome = "ok"
  /\ history[2].outcome = "none"
  /\ businesses[2].isResearching
  /\ businesses[2].description = ""
  /\ \E a \in attempts :
       /\ a.kind = "all"
       /\ a.id = businesses[2].id
       /\ a.gen = history[1].mergedGen + 1
       /\ a.pc = FirstCall

\* C27: a candidate that has an enrichment attempt outstanding has isResearching set
\* (isResearching turns false only when no attempt for the candidate is in flight).
C27_FlagCoversAttempts ==
  \A a \in attempts : \A i \in Idx : businesses[i].id = a.id => businesses[i].isResearching

\* C28: in the place-details-backed path generative research is called only after the
\* place-details call succeeded: an attempt at its research call holds the details it
\* was given; an attempt that ends at the place-details call leaves its candidate
\* Failed with every field but description (and the flag) as it was; and an attempt
\* that leaves its candidate Done has had both calls answered.
C28_DetailsBeforeResearch ==
  /\ [](variant = "places" =>
          \A a \in attempts : a.pc = "research" => a.placeDetails \in PlaceDetailsResults)
  /\ [][variant = "places" =>
          \A a \in Ended : \A i \in Idx :
            businesses[i].id = a.id =>
              IF a.pc = "details"
              THEN /\ history'[i] = [outcome |-> "fail", mergedGen |-> a.gen]
                   /\ EnrichmentStateNext(i) = "Failed" \/ Restarted(a.id)
                   /\ businesses'[i].description = ResearchFailedMsg
                   /\ \A f \in DOMAIN businesses[i] \ {"description", "isResearching"} :
                        businesses'[i][f] = businesses[i][f]
              ELSE history'[i].outcome = "ok"
                     => /\ a.pc = "research"
                        /\ a.placeDetails \in PlaceDetailsResults]_vars

\* a candidate whose attempt failed and left it as discovered, and another attempt
\* that got its place details and is at its research call
C28_Witness ==
  /\ variant = "places"
  /\ \E i \in Idx :
       /\ history[i].outcome = "fail"
       /\ ~businesses[i].isResearching
       /\ businesses[i].description = ResearchFailedMsg
       /\ businesses[i].companyName = businesses[i].discoveryName
       /\ businesses[i].rating = Undefined
  /\ \E a \in attempts : a.pc = "research" /\ a.placeDetails.rating = Num("4.5")

\* C29: in the streaming variants a discovery event that is admitted appends one
\* candidate that is InProgress from its first state on and starts exactly one
\* enrichment attempt, for that candidate; an event rejected by the dedupe, or with an
\* empty website, starts no attempt and leaves the store as it was.
C29_AdmissionStartsOneAttempt ==
  [][variant # "places" =>
       \A k \in lastDelivered' :
         IF k[2] = "" \/ AlreadyExists(k[2])
         THEN /\ businesses' = businesses
              /\ attempts' = attempts
              /\ Issued = {}
         ELSE /\ Len(businesses') = Len(businesses) + 1
              /\ \A i \in Idx : businesses'[i] = businesses[i]
              /\ businesses'[Len(businesses')].discoveryName = k[1]
              /\ businesses'[Len(businesses')].discoveryWebsite = k[2]
              /\ businesses'[Len(businesses')].isResearching
              /\ Cardinality(Issued) = 1
              /\ attempts' = attempts \cup Issued
              /\ \A a \in Issued :
                   /\ a.id = businesses'[Len(businesses')].id
                   /\ a.kind = "discovery"]_vars

\* an admitted candidate with its one attempt in flight, and a second event for the
\* same website under another name just rejected
C29_Witness ==
  /\ variant # "places"
  /\ Len(businesses) = 1
  /\ businesses[1].isResearching
  /\ Cardinality(attempts) = 1
  /\ \E k \in lastDelivered :
       /\ k[2] = businesses[1].discoveryWebsite
       /\ k[1] # businesses[1].discoveryName

\* C25: an export runs only in a state where the store is non-empty and no candidate
\* is InProgress, and the exported snapshot holds no candidate that has an enrichment
\* attempt outstanding.
C25_ExportOnlySettled ==
  exported # NoExport
  => /\ Len(businesses) > 0
     /\ Len(exported) = Len(businesses)
     /\ \A i \in Idx :
          /\ EnrichmentState(i) # "InProgress"
          /\ \A a \in attempts : a.id # businesses[i].id

\* C30: a discovery run sets isLoading and clears the error banner when it starts,
\* isLoading is reset to false by the step in which the discovery call ends, whether
\* it succeeded or failed, and at most one discovery run is outstanding at any time
\* (one exactly while isLoading is true, none while it is false).
C30_OneDiscoveryRun ==
  /\ [](runs \in {0, 1} /\ (isLoading <=> runs = 1))
  /\ [][/\ runs' > runs => (~isLoading /\ isLoading' /\ error' = NoError)
        /\ runs' < runs => (isLoading /\ ~isLoading')]_vars

\* a second run under way in the batch variant, the candidates of the first in the store
C30_Witness ==
  /\ variant = "places"
  /\ isLoading
  /\ runs = 1
  /\ error = NoError
  /\ Len(businesses) > 0

\* C26: without the map/places key the features that do not need it go on: no stored
\* record gets coordinates, an attempt that ends at its geocoding call leaves its
\* candidate Done with the researched fields merged and no coordinates, and an attempt
\* whose research call is answered never leaves its candidate Failed.
C26_NoKeyDegrades ==
  /\ [](~hasMapsKey =>
          \A i \in Idx : businesses[i].lat = Undefined /\ businesses[i].lng = Undefined)
  /\ [][~hasMapsKey =>
          \A a \in Ended : \A i \in Idx :
            businesses[i].id = a.id =>
              /\ a.pc = "geocode" =>
                   /\ history'[i] = [outcome |-> "ok", mergedGen |-> a.gen]
                   /\ EnrichmentStateNext(i) = "Done"
                   /\ \A f \in EnrichedFields : businesses'[i][f] = a.researchedData[f]
                   /\ businesses'[i].lat = Undefined
                   /\ businesses'[i].lng = Undefined
              /\ history'[i].outcome = "fail" => a.pc = FirstCall]_vars

\* without the key: the discovery stream has completed and a candidate is Done with
\* a researched address (so geocoding was asked) and no coordinates
C26_Witness ==
  /\ variant = "geocode"
  /\ ~hasMapsKey
  /\ ~isLoading
  /\ researchMessage.text = "Discovery stream complete. Research may still be in progress."
  /\ \E i \in Idx :
       /\ EnrichmentState(i) = "Done"
       /\ businesses[i].address = "2 Oak Ave"
       /\ businesses[i].contactName = "Ann"
       /\ businesses[i].lat = Undefined
====
